---- MODULE Spec2Model ----
\* Model of the Bus GTFS-RT Locator (src/streamlit_app.py): the input parsing of
\* main(), the poll loop of main(), and get_gtfsrt_vehicle_positions() with the
\* library calls it makes (MessageToDict, json_normalize, the positional column
\* assignment, points_from_xy, astype(int) * 10^9, to_datetime, tz_convert,
\* dissolve().centroid).
EXTENDS Integers, Sequences, FiniteSets, TLC

VARIABLES
    pc,              \* position of main(): "start", "loop", "sleep", "crashed"
    bus_number_str,  \* the text of st.text_input, a sequence of characters
    bus_numbers,     \* main's local bus_numbers: a list of ints or of strings
    errors,          \* the st.error reports, in order
    response,        \* what the last requests.get produced
    outcome,         \* how the last get_gtfsrt_vehicle_positions call ended
    center,          \* main's local center, [lat, lon], or NoCenter
    shown,           \* what the last cycle handed to the page
    nFetch,          \* number of calls of get_gtfsrt_vehicle_positions
    nSleep,          \* number of completed time.sleep(30)
    stop_requested,  \* an external stop request (the loop condition is True)
    ts_raw,          \* timestamp probe: a raw epoch-seconds value
    ts_local         \* timestamp probe: the localized timestamp derived from it

vars == <<pc, bus_number_str, bus_numbers, errors, response, outcome, center, shown,
          nFetch, nSleep, stop_requested, ts_raw, ts_local>>

-----------------------------------------------------------------------------
\* Bounds of the model.

MaxTokens == 1        \* short inputs have 1..MaxTokens comma-separated tokens
MaxEntities == 3      \* entities in one decoded feed message
MaxLoopEntities == 1  \* entities in a feed message of the poll loop
MaxCycles == 2        \* poll cycles explored
MaxEpochHi == 20      \* raw timestamps up to (MaxEpochHi + 1) * 10^9 seconds

\* Program constants.

MaxIds == 10              \* len(bus_numbers) > 10
Billion == 1000000000     \* timestamp.astype(int) * 1000000000
TargetZone == "America/New_York"

-----------------------------------------------------------------------------
\* Text input: bus_number_str.replace(" ", "").split(",") and int(x).

Digits == {"0", "1", "2", "3", "4", "5", "6", "7", "8", "9"}

DigitVal ==
    "0" :> 0 @@ "1" :> 1 @@ "2" :> 2 @@ "3" :> 3 @@ "4" :> 4 @@
    "5" :> 5 @@ "6" :> 6 @@ "7" :> 7 @@ "8" :> 8 @@ "9" :> 9

\* str.replace(" ", "")
RemoveSpaces(s) == SelectSeq(s, LAMBDA c : c # " ")

\* str.split(","): never empty, "" splits to [""]
RECURSIVE SplitFrom(_, _, _)
SplitFrom(s, i, cur) ==
    IF i > Len(s) THEN <<cur>>
    ELSE IF s[i] = "," THEN <<cur>> \o SplitFrom(s, i + 1, <<>>)
    ELSE SplitFrom(s, i + 1, Append(cur, s[i]))

SplitComma(s) == SplitFrom(s, 1, <<>>)

\* int(x) accepts an optional sign followed by one or more digits
Unsigned(x) == IF Len(x) > 0 /\ x[1] \in {"+", "-"} THEN Tail(x) ELSE x

IsIntLiteral(x) ==
    /\ Len(Unsigned(x)) > 0
    /\ \A i \in 1..Len(Unsigned(x)) : Unsigned(x)[i] \in Digits

RECURSIVE DigitsValue(_)
DigitsValue(d) ==
    IF Len(d) = 0 THEN 0
    ELSE 10 * DigitsValue(SubSeq(d, 1, Len(d) - 1)) + DigitVal[d[Len(d)]]

IntOf(x) ==
    IF Len(x) > 0 /\ x[1] = "-" THEN 0 - DigitsValue(Unsigned(x))
    ELSE DigitsValue(Unsigned(x))

\* An element of bus_numbers: an int, or a str when int(x) raised.
IntItem(n) == [kind |-> "int", val |-> n, str |-> <<>>]
StrItem(x) == [kind |-> "str", val |-> 0, str |-> x]

\* Lines 83-87: the try block.  The comprehension is all or nothing: when one
\* int(x) raises, bus_numbers keeps the list of strings assigned on line 84.
ParseRaises(s) ==
    \E i \in 1..Len(SplitComma(RemoveSpaces(s))) :
        ~IsIntLiteral(SplitComma(RemoveSpaces(s))[i])

ParseBusNumbers(s) ==
    LET toks == SplitComma(RemoveSpaces(s))
    IN  IF ParseRaises(s)
        THEN [i \in 1..Len(toks) |-> StrItem(toks[i])]
        ELSE [i \in 1..Len(toks) |-> IntItem(IntOf(toks[i]))]

\* Lines 86-90: the reports of the two validations.
ValidationErrors(s) ==
    (IF ParseRaises(s) THEN <<"ValueError">> ELSE <<>>)
    \o (IF Len(ParseBusNumbers(s)) > MaxIds THEN <<"Too many buses...">> ELSE <<>>)

\* The inputs explored: every text of 1..MaxTokens tokens, and long texts
\* around the limit of MaxIds identifiers.
TokenPool ==
    { <<"2", "0", "0">>, <<"9", "9", "9">>, <<" ", "1", "0", "0">>, <<"x">> }

RECURSIVE JoinComma(_)
JoinComma(toks) ==
    IF Len(toks) = 0 THEN <<>>
    ELSE IF Len(toks) = 1 THEN toks[1]
    ELSE toks[1] \o <<",">> \o JoinComma(Tail(toks))

ShortInputs ==
    { JoinComma(ts) : ts \in UNION { [1..n -> TokenPool] : n \in 1..MaxTokens } }

LongInputs ==
    { JoinComma([i \in 1..n |-> IF i = 1 THEN first ELSE <<"2", "0", "0">>]) :
        n \in MaxIds..(MaxIds + 1), first \in {<<"9", "9", "9">>, <<"x">>} }

InputStrings == ShortInputs \cup LongInputs

\* The texts a single call of the pipeline is explored with.
RequestTexts ==
    { JoinComma(<<<<"2", "0", "0">>, <<"9", "9", "9">>>>),
      JoinComma(<<<<" ", "1", "0", "0">>, <<"2", "0", "0">>>>),
      JoinComma(<<<<"3", "0", "0">>, <<" ", "1", "0", "0">>, <<"2", "0", "0">>>>),
      JoinComma(<<<<"9", "9", "9">>>>),
      JoinComma(<<<<"2", "0", "0">>, <<"x">>>>) }

-----------------------------------------------------------------------------
\* 64-bit arithmetic of the timestamp conversion (lines 70-72).  Numbers
\* beyond 2^31 are written in base Billion, most significant limb first: <<hi, lo>>
\* is hi * 10^9 + lo and <<a, b, c>> is a * 10^18 + b * 10^9 + c.

Two63 == <<9, 223372036, 854775808>>     \* 2^63
Two64 == <<18, 446744073, 709551616>>    \* 2^64

BigLess(a, b) ==
    \/ a[1] < b[1]
    \/ a[1] = b[1] /\ a[2] < b[2]
    \/ a[1] = b[1] /\ a[2] = b[2] /\ a[3] < b[3]

\* a - b for a >= b
BigSub(a, b) ==
    LET b3 == IF a[3] < b[3] THEN 1 ELSE 0
        b2 == IF a[2] - b3 < b[2] THEN 1 ELSE 0
    IN  << a[1] - b[1] - b2,
           a[2] - b3 - b[2] + b2 * Billion,
           a[3] - b[3] + b3 * Billion >>

\* The int64 that holds the non-negative number m after wrap-around.
RECURSIVE Wrap64(_)
Wrap64(m) ==
    IF ~BigLess(m, Two64) THEN Wrap64(BigSub(m, Two64))
    ELSE IF ~BigLess(m, Two63) THEN [neg |-> TRUE, mag |-> BigSub(Two64, m)]
    ELSE [neg |-> FALSE, mag |-> m]

\* Mutant: the seconds are taken for nanoseconds, without the scaling.
ScaleToNs_Unscaled(secs) == Wrap64(<<0, secs[1], secs[2]>>)

\* int64 Series * 1000000000: seconds to nanoseconds, in int64
ScaleToNs(secs) == Wrap64(<<secs[1], secs[2], 0>>)

\* pd.to_datetime(ns, utc=True): the instant ns nanoseconds after the epoch, UTC
ToDatetimeUtc(ns) == [value |-> ns, tz |-> "UTC"]

\* .dt.tz_convert(zone): the same instant, labelled with the zone
TzConvert(t, zone) == [value |-> t.value, tz |-> zone]

LocalizedTimestamp(secs) == TzConvert(ToDatetimeUtc(ScaleToNs(secs)), TargetZone)

ToBig(n) == <<n \div Billion, n % Billion>>

-----------------------------------------------------------------------------
\* The decoded feed.

\* The 13 fields MessageToDict emits for a vehicle entity, in the order it
\* emits them (ListFields order: by field number, nested messages in place).
SourceKeys ==
    << "id",
       "vehicle.trip.tripId", "vehicle.trip.startDate", "vehicle.trip.routeId",
       "vehicle.position.latitude", "vehicle.position.longitude",
       "vehicle.position.bearing", "vehicle.position.speed",
       "vehicle.currentStopSequence", "vehicle.currentStatus",
       "vehicle.timestamp", "vehicle.stopId", "vehicle.vehicle.id" >>

\* Lines 48-62: the names assigned to df_vehicle_positions.columns.
OutputColumns ==
    << "bus_id", "trip_id", "start_date", "route_id", "latitude", "longitude",
       "bearing", "speed", "stop_sequence", "stop_status", "timestamp",
       "stop_id", "vehicle_id" >>

IndexOf(seq, x) == CHOOSE i \in 1..Len(seq) : seq[i] = x

Range(seq) == { seq[i] : i \in 1..Len(seq) }

\* A value of the frame: a numeric string ("str"), another string ("text"),
\* a float, an int, or NaN.
Cell(kind, val) == [kind |-> kind, val |-> val]
NaN == Cell("nan", 0)

BusIds == {100, 200, 300}
Points == { <<0, 0>>, <<2, 2>>, <<3, 1>> }     \* <<latitude, longitude>>
BaseEpoch == 1700000000

\* Optional fields an entity of the feed may omit.
Shapes == { {}, {"vehicle.position.bearing"}, {"vehicle.timestamp"} }

Entity(id, p, omitted) ==
    [id |-> id, lat |-> p[1], lon |-> p[2], ts |-> BaseEpoch + id,
     omitted |-> omitted]

EntityPool == { Entity(id, p, om) : id \in BusIds, p \in Points, om \in Shapes }

\* Entity ids are unique within a feed message.
Feeds ==
    { f \in UNION { [1..n -> EntityPool] : n \in 0..MaxEntities } :
        \A i, j \in 1..Len(f) : f[i].id = f[j].id => i = j }

\* The value MessageToDict gives a field of an entity.
FieldCell(e, key) ==
    CASE key = "id" -> Cell("str", e.id)
      [] key = "vehicle.position.latitude" -> Cell("float", e.lat)
      [] key = "vehicle.position.longitude" -> Cell("float", e.lon)
      [] key = "vehicle.timestamp" -> Cell("str", e.ts)
      [] key \in {"vehicle.position.bearing", "vehicle.position.speed"} ->
            Cell("float", e.id * 100 + IndexOf(SourceKeys, key))
      [] key = "vehicle.currentStopSequence" ->
            Cell("int", e.id * 100 + IndexOf(SourceKeys, key))
      [] key \in {"vehicle.trip.routeId", "vehicle.currentStatus"} ->
            Cell("text", e.id * 100 + IndexOf(SourceKeys, key))
      [] OTHER -> Cell("str", e.id * 100 + IndexOf(SourceKeys, key))

\* MessageToDict(entity), flattened as json_normalize flattens it: the keys
\* present, in emission order, and their values.
MessageToDict(e) ==
    [keys |-> SelectSeq(SourceKeys, LAMBDA k : k \notin e.omitted),
     val |-> [k \in Range(SourceKeys) \ e.omitted |-> FieldCell(e, k)]]

-----------------------------------------------------------------------------
\* get_gtfsrt_vehicle_positions (lines 22-74).

\* Mutant: membership tested against the first requested number only.
InBusNumbers_FirstOnly(id, bus_nums) ==
    Len(bus_nums) > 0 /\ bus_nums[1] = IntItem(id)

\* Line 43: int(entity.id) in bus_numbers.  An int never equals a str.
InBusNumbers(id, bus_nums) ==
    \E i \in 1..Len(bus_nums) : bus_nums[i] = IntItem(id)

\* Lines 42-44: the list comprehension, in wire order.
RECURSIVE FeedList(_, _)
FeedList(entities, bus_nums) ==
    IF Len(entities) = 0 THEN <<>>
    ELSE (IF InBusNumbers(Head(entities).id, bus_nums)
          THEN <<MessageToDict(Head(entities))>> ELSE <<>>)
         \o FeedList(Tail(entities), bus_nums)

\* json_normalize: the columns are the keys of the records in first-seen order.
RECURSIVE FirstSeenColumns(_, _)
FirstSeenColumns(dicts, seen) ==
    IF Len(dicts) = 0 THEN seen
    ELSE FirstSeenColumns(Tail(dicts),
            seen \o SelectSeq(Head(dicts).keys, LAMBDA k : k \notin Range(seen)))

\* json_normalize: a key a record lacks is NaN in its row.
JsonNormalize(dicts) ==
    LET cols == FirstSeenColumns(dicts, <<>>)
    IN  [columns |-> cols,
         data |-> [i \in 1..Len(dicts) |->
                    [k \in Range(cols) |->
                        IF k \in DOMAIN dicts[i].val THEN dicts[i].val[k] ELSE NaN]]]

\* Lines 48-62: df.columns = [...] renames by position; a length mismatch raises.
RenameColumns(df) ==
    [i \in 1..Len(df.data) |->
        [name \in Range(OutputColumns) |->
            df.data[i][df.columns[IndexOf(OutputColumns, name)]]]]

\* Line 71: timestamp.astype(int) raises on NaN and on a non-numeric string.
AsTypeIntRaises(c) == c.kind \in {"nan", "text"}

\* Lines 63-72: the geometry column and the t column.
Enrich(cols) ==
    [col |-> cols,
     geometry |-> [x |-> cols["longitude"].val, y |-> cols["latitude"].val],
     t |-> LocalizedTimestamp(ToBig(cols["timestamp"].val))]

Raise(exc) == [kind |-> "raise", exc |-> exc, rows |-> <<>>]
ReturnNone == [kind |-> "none", exc |-> "", rows |-> <<>>]
ReturnFrame(rows) == [kind |-> "frame", exc |-> "", rows |-> rows]
NotCalled == [kind |-> "unset", exc |-> "", rows |-> <<>>]

\* What requests.get can produce: it raises, or returns bytes that
\* ParseFromString rejects, or bytes that decode to a feed message.
TransportFailure == [kind |-> "transport_error", entities |-> <<>>]
MalformedBytes == [kind |-> "malformed", entities |-> <<>>]
Decoded(f) == [kind |-> "ok", entities |-> f]
NoResponse == [kind |-> "unset", entities |-> <<>>]

Responses == {TransportFailure, MalformedBytes} \cup { Decoded(f) : f \in Feeds }

\* The poll loop is explored with the shorter feed messages whose vehicles
\* are all at one position.
LoopPosition == <<2, 2>>

LoopResponses ==
    { r \in Responses :
        /\ Len(r.entities) <= MaxLoopEntities
        /\ \A i \in 1..Len(r.entities) :
              <<r.entities[i].lat, r.entities[i].lon>> = LoopPosition }

\* Mutant: bytes that do not decode are taken for an empty feed message.
GetGtfsrtVehiclePositions_SwallowDecodeError(bus_nums, resp) ==
    IF resp.kind = "transport_error" THEN Raise("ConnectionError")
    ELSE IF resp.kind = "malformed" THEN ReturnNone
    ELSE LET feed_list == FeedList(resp.entities, bus_nums)
             df == JsonNormalize(feed_list)
         IN  IF Len(feed_list) = 0 THEN ReturnNone
             ELSE IF Len(df.columns) # Len(OutputColumns) THEN Raise("ValueError")
             ELSE IF \E i \in 1..Len(df.data) :
                        AsTypeIntRaises(RenameColumns(df)[i]["timestamp"])
                  THEN Raise("ValueError")
             ELSE ReturnFrame([i \in 1..Len(df.data) |-> Enrich(RenameColumns(df)[i])])

GetGtfsrtVehiclePositions(bus_nums, resp) ==
    IF resp.kind = "transport_error" THEN Raise("ConnectionError")
    ELSE IF resp.kind = "malformed" THEN Raise("DecodeError")
    ELSE LET feed_list == FeedList(resp.entities, bus_nums)
             df == JsonNormalize(feed_list)
         IN  IF Len(feed_list) = 0 THEN ReturnNone
             ELSE IF Len(df.columns) # Len(OutputColumns) THEN Raise("ValueError")
             ELSE IF \E i \in 1..Len(df.data) :
                        AsTypeIntRaises(RenameColumns(df)[i]["timestamp"])
                  THEN Raise("ValueError")
             ELSE ReturnFrame([i \in 1..Len(df.data) |-> Enrich(RenameColumns(df)[i])])

-----------------------------------------------------------------------------
\* Lines 103-104: gdf.dissolve().centroid and center.

RECURSIVE Gcd(_, _)
Gcd(a, b) == IF b = 0 THEN a ELSE Gcd(b, a % b)

Abs(n) == IF n < 0 THEN 0 - n ELSE n

\* The fraction num / den (den > 0) in lowest terms.
Fraction(num, den) ==
    LET g == Gcd(Abs(num), den)
    IN  [num |-> num \div g, den |-> den \div g]

RECURSIVE SumX(_)
SumX(S) ==
    IF S = {} THEN 0
    ELSE LET p == CHOOSE q \in S : TRUE IN p.x + SumX(S \ {p})

RECURSIVE SumY(_)
SumY(S) ==
    IF S = {} THEN 0
    ELSE LET p == CHOOSE q \in S : TRUE IN p.y + SumY(S \ {p})

\* dissolve() unions the geometries of all rows into one: coincident points
\* are one point of the union.
Dissolve(rows) == { rows[i].geometry : i \in 1..Len(rows) }

\* The centroid of a set of points is the mean of its points.
Centroid(pts) ==
    [x |-> Fraction(SumX(pts), Cardinality(pts)),
     y |-> Fraction(SumY(pts), Cardinality(pts))]

\* Mutant: the center is built as [x, y], longitude first.
CenterOf_LonLat(rows) ==
    LET c == Centroid(Dissolve(rows)) IN <<c.x, c.y>>

\* Line 104: center = [center_point[0].y, center_point[0].x]
CenterOf(rows) ==
    LET c == Centroid(Dissolve(rows)) IN <<c.y, c.x>>

NoCenter == <<>>

-----------------------------------------------------------------------------
\* main (lines 77-131).

Unconverted == [value |-> [neg |-> FALSE, mag |-> <<0, 0, 0>>], tz |-> "unset"]

Init ==
    /\ pc = "start"
    /\ bus_number_str \in InputStrings
    /\ bus_numbers = <<>>
    /\ errors = <<>>
    /\ response = NoResponse
    /\ outcome = NotCalled
    /\ center = NoCenter
    /\ shown = ""
    /\ nFetch = 0
    /\ nSleep = 0
    /\ stop_requested = FALSE
    /\ ts_raw = <<0, 0>>
    /\ ts_local = Unconverted

\* Lines 78-95: parse and validate the input.  st.error reports and returns;
\* main goes on to the loop in every case.
Main ==
    /\ pc = "start"
    /\ bus_numbers' = ParseBusNumbers(bus_number_str)
    /\ errors' = ValidationErrors(bus_number_str)
    /\ pc' = "loop"
    /\ UNCHANGED <<bus_number_str, response, outcome, center, shown, nFetch,
                   nSleep, stop_requested, ts_raw, ts_local>>

\* Lines 97-129: one iteration of while True, up to the sleep.  An exception
\* of get_gtfsrt_vehicle_positions is caught nowhere and ends main.
PollCycle ==
    /\ pc = "loop"
    /\ nFetch < MaxCycles
    /\ \E resp \in LoopResponses :
         LET r == GetGtfsrtVehiclePositions(bus_numbers, resp)
         IN  /\ response' = resp
             /\ outcome' = r
             /\ nFetch' = nFetch + 1
             /\ CASE r.kind = "raise" ->
                       /\ pc' = "crashed"
                       /\ shown' = "exception"
                       /\ center' = center
                  [] r.kind = "none" ->
                       /\ pc' = "loop"
                       /\ shown' = "No buses in service"
                       /\ center' = center
                  [] OTHER ->
                       /\ pc' = "sleep"
                       /\ shown' = "table"
                       /\ center' = CenterOf(r.rows)
    /\ UNCHANGED <<bus_number_str, bus_numbers, errors, nSleep, stop_requested,
                   ts_raw, ts_local>>

\* Line 131: time.sleep(30), the last statement of the else branch.
Sleep ==
    /\ pc = "sleep"
    /\ nSleep' = nSleep + 1
    /\ pc' = "loop"
    /\ UNCHANGED <<bus_number_str, bus_numbers, errors, response, outcome, center,
                   shown, nFetch, stop_requested, ts_raw, ts_local>>

\* Someone asks the loop to stop.  Line 97 is while True: nothing reads it.
RequestStop ==
    /\ pc \in {"loop", "sleep"}
    /\ ~stop_requested
    /\ stop_requested' = TRUE
    /\ UNCHANGED <<pc, bus_number_str, bus_numbers, errors, response, outcome,
                   center, shown, nFetch, nSleep, ts_raw, ts_local>>

Next == Main \/ PollCycle \/ Sleep \/ RequestStop

Spec == Init /\ [][Next]_vars

-----------------------------------------------------------------------------
\* One call of get_gtfsrt_vehicle_positions and lines 100-104 of its caller,
\* over every feed message of up to MaxEntities entities.

InitCall ==
    /\ pc = "call"
    /\ bus_number_str \in RequestTexts
    /\ bus_numbers = ParseBusNumbers(bus_number_str)
    /\ errors = ValidationErrors(bus_number_str)
    /\ response \in Responses
    /\ outcome = NotCalled
    /\ center = NoCenter
    /\ shown = ""
    /\ nFetch = 0
    /\ nSleep = 0
    /\ stop_requested = FALSE
    /\ ts_raw = <<0, 0>>
    /\ ts_local = Unconverted

Call ==
    /\ pc = "call"
    /\ LET r == GetGtfsrtVehiclePositions(bus_numbers, response)
       IN  /\ outcome' = r
           /\ center' = IF r.kind = "frame" THEN CenterOf(r.rows) ELSE center
           /\ shown' = CASE r.kind = "raise" -> "exception"
                         [] r.kind = "none" -> "No buses in service"
                         [] OTHER -> "table"
    /\ nFetch' = nFetch + 1
    /\ pc' = "returned"
    /\ UNCHANGED <<bus_number_str, bus_numbers, errors, response, nSleep,
                   stop_requested, ts_raw, ts_local>>

NextCall == Call

SpecCall == InitCall /\ [][NextCall]_vars

-----------------------------------------------------------------------------
\* The timestamp conversion of lines 70-72 alone, over raw values on both
\* sides of the int64 range of nanoseconds.

LowLimbs ==
    {0, 1, 223372036, 223372037, 446744073, 446744074, 700000000, 999999999}

RawTimestamps == { <<hi, lo>> : hi \in 0..MaxEpochHi, lo \in LowLimbs }

InitTime ==
    /\ pc = "convert"
    /\ bus_number_str = <<>>
    /\ bus_numbers = <<>>
    /\ errors = <<>>
    /\ response = NoResponse
    /\ outcome = NotCalled
    /\ center = NoCenter
    /\ shown = ""
    /\ nFetch = 0
    /\ nSleep = 0
    /\ stop_requested = FALSE
    /\ ts_raw \in RawTimestamps
    /\ ts_local = Unconverted

ConvertTimestamp ==
    /\ pc = "convert"
    /\ ts_local' = LocalizedTimestamp(ts_raw)
    /\ pc' = "converted"
    /\ UNCHANGED <<bus_number_str, bus_numbers, errors, response, outcome, center,
                   shown, nFetch, nSleep, stop_requested, ts_raw>>

NextTime == ConvertTimestamp

SpecTime == InitTime /\ [][NextTime]_vars

-----------------------------------------------------------------------------
\* Vocabulary of the properties, stated from the feed and the request rather
\* than from the pipeline's own operators.

\* The integers the caller asked for.
RequestedIds ==
    { bus_numbers[i].val : i \in { j \in 1..Len(bus_numbers) : bus_numbers[j].kind = "int" } }

\* The entities of the last response whose id was asked for, in wire order.
Matched == SelectSeq(response.entities, LAMBDA e : e.id \in RequestedIds)

\* The matched entities that carry all 13 source fields.
Complete == SelectSeq(Matched, LAMBDA e : e.omitted = {})

Returned == outcome.kind \in {"none", "frame"}

FeedIds == [i \in 1..Len(response.entities) |-> response.entities[i].id]

BusIdsOut == [i \in 1..Len(outcome.rows) |-> outcome.rows[i].col["bus_id"].val]

\* Output field j of row i holds the value of source field j of entity e.
HoldsSource(i, j, e) ==
    outcome.rows[i].col[OutputColumns[j]] = FieldCell(e, SourceKeys[j])

RECURSIVE SumSeq(_)
SumSeq(q) == IF Len(q) = 0 THEN 0 ELSE Head(q) + SumSeq(Tail(q))

RowLats == [i \in 1..Len(outcome.rows) |-> outcome.rows[i].col["latitude"].val]
RowLons == [i \in 1..Len(outcome.rows) |-> outcome.rows[i].col["longitude"].val]

\* The distinct <<latitude, longitude>> positions of the rows.
RowPositions == { <<RowLats[i], RowLons[i]>> : i \in 1..Len(outcome.rows) }

RECURSIVE SumCoord(_, _)
SumCoord(S, k) ==
    IF S = {} THEN 0
    ELSE LET p == CHOOSE q \in S : TRUE IN p[k] + SumCoord(S \ {p}, k)

\* The fraction f equals total / n.
IsMean(f, total, n) == f.den > 0 /\ f.num * n = f.den * total

RawNs == <<ts_raw[1], ts_raw[2], 0>>

\* The epoch-seconds value of a timestamp: floor(value / 10^9).
EpochSeconds(t) ==
    LET m == t.value.mag
    IN  IF ~t.value.neg THEN [neg |-> FALSE, mag |-> <<m[1], m[2]>>]
        ELSE IF m[3] = 0 THEN [neg |-> TRUE, mag |-> <<m[1], m[2]>>]
        ELSE IF m[2] + 1 = Billion THEN [neg |-> TRUE, mag |-> <<m[1] + 1, 0>>]
        ELSE [neg |-> TRUE, mag |-> <<m[1], m[2] + 1>>]

-----------------------------------------------------------------------------
\* C1: input that fails to parse, or that parses to more than 10 identifiers,
\* is rejected before any fetch: once main has reported a validation error,
\* get_gtfsrt_vehicle_positions is never called.
C1_RejectedBeforeFetch == errors # <<>> => nFetch = 0

\* C2: the rows of a returned frame are exactly the entities whose id was
\* asked for, in wire order: no more rows than entities, every bus_id a
\* requested id; without a match the call returns None; and an entity that
\* was not asked for never makes the call raise.
C2_RowsAreTheRequestedEntities ==
    (pc = "returned" /\ response.kind = "ok") =>
        /\ outcome.kind = "frame" =>
              /\ Len(outcome.rows) <= Len(response.entities)
              /\ \A i \in 1..Len(outcome.rows) : BusIdsOut[i] \in RequestedIds
              /\ BusIdsOut = [i \in 1..Len(Matched) |-> Matched[i].id]
        /\ outcome.kind = "none" => Matched = <<>>
        /\ outcome.kind = "raise" => Complete # Matched

\* C2 witness: feed ids [100, 200, 300], request {200, 999}, one row, bus 200,
\* and the two entities dropped include one that omits a field.
C2_Witness ==
    /\ pc = "returned"
    /\ FeedIds = <<100, 200, 300>>
    /\ RequestedIds = {200, 999}
    /\ outcome.kind = "frame"
    /\ BusIdsOut = <<200>>
    /\ response.entities[1].omitted # {}

\* C3: a transport or decode failure in a cycle does not end the loop: the
\* cycle counts as an empty snapshot and main goes on.
C3_FailedCycleKeepsLooping ==
    response.kind \in {"transport_error", "malformed"} =>
        (outcome.kind = "none" /\ pc # "crashed")

C5_FieldsHoldTheirSource ==
    (pc = "returned" /\ outcome.kind = "frame") =>
        /\ Len(outcome.rows) = Len(Matched)
        /\ \A i \in 1..Len(outcome.rows) : \A j \in 1..Len(SourceKeys) :
              SourceKeys[j] \notin Matched[i].omitted => HoldsSource(i, j, Matched[i])

\* C6: when a matched entity lacks a source field only its row is dropped:
\* the call does not raise and returns the rows of the complete entities,
\* with their values.
C6_OnlyTheIncompleteRowIsDropped ==
    (pc = "returned" /\ response.kind = "ok" /\ Complete # Matched) =>
        /\ Returned
        /\ Len(outcome.rows) = Len(Complete)
        /\ \A i \in 1..Len(outcome.rows) : \A j \in 1..Len(SourceKeys) :
              HoldsSource(i, j, Complete[i])

\* C7 as claimed: for every raw epoch-seconds value the localized timestamp
\* converts back to that value, and its zone is America/New_York.
C7_RoundTripEveryValue ==
    pc = "converted" =>
        /\ EpochSeconds(ts_local) = [neg |-> FALSE, mag |-> ts_raw]
        /\ ts_local.tz = "America/New_York"

\* C7 as amended: for every raw epoch-seconds value t0 with t0 * 10^9 < 2^63
\* (t0 <= 9223372036) the localized timestamp converts back to t0, and the
\* zone is America/New_York for every value.
C7_RoundTripWithinInt64 ==
    pc = "converted" =>
        /\ BigLess(RawNs, Two63) =>
              EpochSeconds(ts_local) = [neg |-> FALSE, mag |-> ts_raw]
        /\ ts_local.tz = "America/New_York"

\* C7 witness: the largest value in range, 9223372036, was converted.
C7_Witness ==
    /\ pc = "converted"
    /\ ts_raw = <<9, 223372036>>
    /\ EpochSeconds(ts_local).mag = <<9, 223372036>>

\* C8 as claimed: the center of a frame is the mean of the positions of
\* its rows, as (latitude, longitude), with x = longitude and y = latitude;
\* no center is computed without a frame.
C8_CenterIsMeanOfRows ==
    pc = "returned" =>
        /\ outcome.kind = "frame" =>
              /\ \A i \in 1..Len(outcome.rows) :
                    outcome.rows[i].geometry = [x |-> RowLons[i], y |-> RowLats[i]]
              /\ IsMean(center[1], SumSeq(RowLats), Len(outcome.rows))
              /\ IsMean(center[2], SumSeq(RowLons), Len(outcome.rows))
        /\ outcome.kind # "frame" => center = NoCenter

\* C8 as amended: the center of a frame is the mean of the distinct
\* positions of its rows (rows at one position count once), as (latitude,
\* longitude) in lowest terms, with x = longitude and y = latitude; no center
\* is computed without a frame.
C8_CenterIsMeanOfDistinctPositions ==
    pc = "returned" =>
        /\ outcome.kind = "frame" =>
              /\ \A i \in 1..Len(outcome.rows) :
                    outcome.rows[i].geometry = [x |-> RowLons[i], y |-> RowLats[i]]
              /\ IsMean(center[1], SumCoord(RowPositions, 1), Cardinality(RowPositions))
              /\ IsMean(center[2], SumCoord(RowPositions, 2), Cardinality(RowPositions))
              /\ Gcd(Abs(center[1].num), center[1].den) = 1
              /\ Gcd(Abs(center[2].num), center[2].den) = 1
        /\ outcome.kind # "frame" => center = NoCenter

\* C8 witness: rows at (0,0) and (2,2) and a third at one of them; the
\* center is (1,1).
C8_Witness ==
    /\ pc = "returned"
    /\ outcome.kind = "frame"
    /\ Len(outcome.rows) = 3
    /\ RowPositions = { <<0, 0>>, <<2, 2>> }
    /\ center = << [num |-> 1, den |-> 1], [num |-> 1, den |-> 1] >>

\* C9: every cycle that returns is followed by the wait before the next
\* cycle begins: the fetches never run more than one ahead of the waits.
C9_WaitAfterEveryCycle == pc # "crashed" => nFetch <= nSleep + 1

\* C10: once the stop signal is set no further cycle is started.
C10_NoCycleAfterStop == [][stop_requested => nFetch' = nFetch]_vars

====
